---- MODULE Spec2Model ----
(***************************************************************************)
(* Model of src/plugin.py (date_aware_plugin): the holiday cache loader,   *)
(* the three-day formatter, the optional LLM expansion and the command and *)
(* event-handler surfaces, run as call chains on one asyncio event loop.   *)
(*                                                                         *)
(* TLA+ string literals are ASCII, so the Chinese literals of the source   *)
(* are written in pinyin:                                                  *)
(*   zuotian/jintian/mingtian = 昨天/今天/明天, XingQiYi..XingQiRi =       *)
(*   星期一..星期日, "yue"/"ri" = 月/日, "[" "]" = 【 】,                  *)
(*   "(tiaoxiu)" = （调休）, YuanDan = 元旦, GuoQingJie = 国庆节, ...      *)
(***************************************************************************)
EXTENDS Integers, Sequences, FiniteSets, TLC

VARIABLES
    now,        \* the wall clock, as a proleptic Gregorian ordinal (datetime.now())
    store,      \* CACHE_DIR: year -> the file "<year>.json"
    chain,      \* the call chains (coroutines) the host has started
    running,    \* the chain the event loop is executing synchronously, or 0
    llm_prompt, \* message.llm_prompt of the message the event handler is given
    last,       \* the call that returned most recently, as it was on return
    log,        \* history: counters, the blocks injected, the maps served and saved
    pure        \* the last call of a pure function: [fn, args, out]

vars == <<now, store, chain, running, llm_prompt, last, log, pure>>

-----------------------------------------------------------------------------
(* Bounds *)

MaxTicks == 1       \* midnights that pass during a run
MaxCalls == 2       \* entry-point invocations the host makes during a run
SpanDays == 380     \* days after FirstDay the pure formatter is applied to

-----------------------------------------------------------------------------
(* The calendar: datetime's ordinal arithmetic (date +/- timedelta(days=1)  *)
(* is fromordinal(toordinal() +/- 1)).                                      *)

is_leap(y) == (y % 4 = 0) /\ ((y % 100 # 0) \/ (y % 400 = 0))

DAYS_IN_MONTH == <<31, 28, 31, 30, 31, 30, 31, 31, 30, 31, 30, 31>>

DAYS_BEFORE_MONTH == <<0, 31, 59, 90, 120, 151, 181, 212, 243, 273, 304, 334>>

days_before_year(y) ==
    LET p == y - 1 IN p * 365 + (p \div 4) - (p \div 100) + (p \div 400)

days_before_month(y, m) ==
    DAYS_BEFORE_MONTH[m] + (IF m > 2 /\ is_leap(y) THEN 1 ELSE 0)

\* date.toordinal() of a date <<y, m, d>>
ymd2ord(date) == days_before_year(date[1]) + days_before_month(date[1], date[2]) + date[3]

\* date.fromordinal(n): <<y, m, d>>
ord2ymd(ordinal) ==
    LET n0   == ordinal - 1
        n400 == n0 \div 146097
        r400 == n0 % 146097
        n100 == r400 \div 36524
        r100 == r400 % 36524
        n4   == r100 \div 1461
        r4   == r100 % 1461
        n1   == r4 \div 365
        n    == r4 % 365
        year == n400 * 400 + 1 + n100 * 100 + n4 * 4 + n1
    IN  IF n1 = 4 \/ n100 = 4
        THEN <<year - 1, 12, 31>>
        ELSE LET leapyear == (n1 = 3) /\ ((n4 # 24) \/ (n100 = 3))
                 month0   == (n + 50) \div 32
                 prec0    == DAYS_BEFORE_MONTH[month0]
                                + (IF month0 > 2 /\ leapyear THEN 1 ELSE 0)
                 month    == IF prec0 > n THEN month0 - 1 ELSE month0
                 prec     == IF prec0 > n
                             THEN prec0 - (DAYS_IN_MONTH[month]
                                    + (IF month = 2 /\ leapyear THEN 1 ELSE 0))
                             ELSE prec0
             IN  <<year, month, n - prec + 1>>

\* date.weekday(): Monday is 0
weekday(ordinal) == (ordinal + 6) % 7

\* today - timedelta(days=1), today + timedelta(days=1)
timedelta_add(ordinal, days) == ordinal + days

-----------------------------------------------------------------------------
(* Formatting *)

Pad2(n) == IF n < 10 THEN "0" \o ToString(n) ELSE ToString(n)

\* date.strftime("%Y-%m-%d") (years of four digits)
strftime_iso(ordinal) ==
    LET d == ord2ymd(ordinal)
    IN  ToString(d[1]) \o "-" \o Pad2(d[2]) \o "-" \o Pad2(d[3])

get_weekday_cn(ordinal) ==
    LET weekdays == <<"XingQiYi", "XingQiEr", "XingQiSan", "XingQiSi",
                      "XingQiWu", "XingQiLiu", "XingQiRi">>
    IN  weekdays[weekday(ordinal) + 1]

format_date_short(ordinal) ==
    LET d == ord2ymd(ordinal)
    IN  ToString(d[2]) \o "yue" \o ToString(d[3]) \o "ri"

-----------------------------------------------------------------------------
(* Holiday lookup.  A holiday map is a function from ISO date strings to    *)
(* entries; an entry is a JSON object (a record with some of the fields     *)
(* date, name_cn, type) or, in a file not written by this code, a JSON      *)
(* value that is no object (a record with the one field nondict).           *)

EmptyMap == [k \in {} |-> ""]

FIXED_HOLIDAYS ==
    [k \in {"01-01", "02-14", "03-08", "04-01", "05-01", "05-04",
            "06-01", "07-01", "08-01", "09-10", "10-01", "12-25"} |->
       CASE k = "01-01" -> "YuanDan"
         [] k = "02-14" -> "QingRenJie"
         [] k = "03-08" -> "FuNvJie"
         [] k = "04-01" -> "YuRenJie"
         [] k = "05-01" -> "LaoDongJie"
         [] k = "05-04" -> "QingNianJie"
         [] k = "06-01" -> "ErTongJie"
         [] k = "07-01" -> "JianDangJie"
         [] k = "08-01" -> "JianJunJie"
         [] k = "09-10" -> "JiaoShiJie"
         [] k = "10-01" -> "GuoQingJie"
         [] k = "12-25" -> "ShengDanJie"]

IsDict(info) == "nondict" \notin DOMAIN info

\* dict.get(key, default)
dict_get(d, key, default) == IF key \in DOMAIN d THEN d[key] ELSE default

\* A returned value, or an exception raised
Return(v) == [exc |-> FALSE, val |-> v]
Raise == [exc |-> TRUE, val |-> ""]

get_holiday_name_empty_falls_back(date_str, holiday_map) ==
    LET month_day == SubSeq(date_str, 6, Len(date_str))
        name == IF date_str \in DOMAIN holiday_map
                THEN dict_get(holiday_map[date_str], "name_cn", "")
                ELSE ""
    IN  IF name # ""
        THEN IF dict_get(holiday_map[date_str], "type", "") = "transfer_workday"
             THEN Return(name \o "(tiaoxiu)")
             ELSE Return(name)
        ELSE Return(dict_get(FIXED_HOLIDAYS, month_day, ""))

get_holiday_name(date_str, holiday_map) ==
    IF date_str \in DOMAIN holiday_map
    THEN LET info == holiday_map[date_str]
         IN  IF ~IsDict(info)
             THEN Raise      \* AttributeError: no attribute 'get'
             ELSE LET name == dict_get(info, "name_cn", "")
                      holiday_type == dict_get(info, "type", "")
                  IN  IF holiday_type = "transfer_workday"
                      THEN Return(name \o "(tiaoxiu)")
                      ELSE Return(name)
    ELSE LET month_day == SubSeq(date_str, 6, Len(date_str))
         IN  Return(dict_get(FIXED_HOLIDAYS, month_day, ""))

-----------------------------------------------------------------------------
(* The three-day rendering *)

DayRecord(ordinal) ==
    [ord        |-> ordinal,
     date_str   |-> strftime_iso(ordinal),
     date_short |-> format_date_short(ordinal),
     weekday    |-> get_weekday_cn(ordinal)]

get_three_days_raw_info_shifted(today) ==
    [yesterday |-> DayRecord(timedelta_add(today, -1)),
     today     |-> DayRecord(today),
     tomorrow  |-> DayRecord(timedelta_add(today, 2))]

\* get_three_days_raw_info(), with the value datetime.now() gave it
get_three_days_raw_info(today) ==
    [yesterday |-> DayRecord(timedelta_add(today, -1)),
     today     |-> DayRecord(today),
     tomorrow  |-> DayRecord(timedelta_add(today, 1))]

\* One line of the output; Raise when the lookup raises
format_line(day_name, info, holiday_map) ==
    LET holiday == get_holiday_name(info.date_str, holiday_map)
    IN  IF holiday.exc THEN Raise
        ELSE IF holiday.val # ""
        THEN Return(day_name \o " | " \o info.date_short \o " " \o info.weekday
                        \o "[" \o holiday.val \o "]")
        ELSE Return(day_name \o " | " \o info.date_short \o " " \o info.weekday)

\* The loop and the join of get_three_days_info, after the map is known
format_three_days(base_info, holiday_map) ==
    LET l1 == format_line("zuotian", base_info.yesterday, holiday_map)
        l2 == format_line("jintian", base_info.today, holiday_map)
        l3 == format_line("mingtian", base_info.tomorrow, holiday_map)
    IN  IF l1.exc \/ l2.exc \/ l3.exc THEN Raise
        ELSE Return(l1.val \o "\n" \o l2.val \o "\n" \o l3.val)

-----------------------------------------------------------------------------
(* expand_with_llm *)

IsSpace(ch) == ch \in {" ", "\n", "\t"}

RECURSIVE lstrip(_)
lstrip(s) ==
    IF Len(s) > 0 /\ IsSpace(SubSeq(s, 1, 1)) THEN lstrip(SubSeq(s, 2, Len(s))) ELSE s

RECURSIVE rstrip(_)
rstrip(s) ==
    IF Len(s) > 0 /\ IsSpace(SubSeq(s, Len(s), Len(s)))
    THEN rstrip(SubSeq(s, 1, Len(s) - 1))
    ELSE s

\* str.strip()
strip(s) == rstrip(lstrip(s))

\* llm_api.get_available_models(): it raises, or gives a dict with or without
\* a "replyer" entry
ModelConfigs ==
    {[raises |-> r, replyer |-> p] : r \in BOOLEAN, p \in BOOLEAN}

\* llm_api.generate_with_model(...): it raises, or gives (success, result, _, _)
GenOutcomes ==
    {[raises |-> TRUE, success |-> FALSE, result |-> ""]}
    \cup {[raises |-> FALSE, success |-> s, result |-> r] :
            s \in BOOLEAN,
            r \in {"", " prose\n", "  "}}

\* Whether expand_with_llm reaches its await of generate_with_model
expand_awaits(models) == ~models.raises /\ models.replyer

expand_with_llm(raw_info, models, gen) ==
    IF models.raises THEN raw_info             \* except Exception
    ELSE IF ~models.replyer THEN raw_info      \* no model configured
    ELSE IF gen.raises THEN raw_info           \* except Exception
    ELSE IF gen.success /\ gen.result # "" THEN strip(gen.result)
    ELSE raw_info

-----------------------------------------------------------------------------
(* The local store: one file per year.  A file is absent, present but not   *)
(* openable, or holds the chunks written to it so far.  json.dump writes    *)
(* the opening brace, the entries one after the other, then the closing     *)
(* brace; json.load accepts a document only when it is whole.               *)

Absent == [st |-> "absent", data |-> <<>>]
NoPerm == [st |-> "noperm", data |-> <<>>]
File(tokens) == [st |-> "file", data |-> tokens]

OpenBrace == [k |-> "{"]
CloseBrace == [k |-> "}"]
EntryToken(key, val) == [k |-> "entry", key |-> key, val |-> val]

RECURSIVE dump_entries(_, _)
dump_entries(data, keys) ==
    IF keys = {} THEN <<>>
    ELSE LET key == CHOOSE x \in keys : TRUE
         IN  <<EntryToken(key, data[key])>> \o dump_entries(data, keys \ {key})

\* json.dump(data, f, ensure_ascii=False, indent=2): the chunks written, in order
json_dump(data) == <<OpenBrace>> \o dump_entries(data, DOMAIN data) \o <<CloseBrace>>

LoadOk(m) == [exc |-> FALSE, val |-> m]
LoadErr == [exc |-> TRUE, val |-> EmptyMap]

EntriesMap(tokens) ==
    LET idx == {i \in 1..Len(tokens) : tokens[i].k = "entry"}
        keys == {tokens[i].key : i \in idx}
        last_at(key) == CHOOSE i \in idx :
                        /\ tokens[i].key = key
                        /\ \A j \in idx : tokens[j].key = key => j <= i
    IN  [key \in keys |-> tokens[last_at(key)].val]

\* json.load(f): the mapping, or JSONDecodeError
json_load(tokens) ==
    IF /\ Len(tokens) >= 2
       /\ tokens[1].k = "{"
       /\ tokens[Len(tokens)].k = "}"
       /\ \A i \in 2..(Len(tokens) - 1) : tokens[i].k = "entry"
    THEN LoadOk(EntriesMap(tokens))
    ELSE LoadErr

\* What a file holds for json.load: a parsed mapping, or no readable copy
read_file(f) ==
    IF f.st = "file" THEN json_load(f.data) ELSE LoadErr

load_cached_holiday_salvaging(f) ==
    IF f.st = "file" /\ Len(f.data) >= 1 /\ f.data[1].k = "{"
    THEN EntriesMap(f.data)
    ELSE EmptyMap

\* load_cached_holiday(year), on the file CACHE_DIR/<year>.json
load_cached_holiday(f) ==
    IF f.st = "absent" THEN EmptyMap               \* os.path.exists is false
    ELSE IF f.st = "noperm" THEN EmptyMap          \* open raises, caught
    ELSE LET r == json_load(f.data)
         IN  IF r.exc THEN EmptyMap ELSE r.val     \* json.load raises, caught

\* Python truthiness of a dict
Truthy(m) == DOMAIN m # {}

-----------------------------------------------------------------------------
(* The remote source *)

Iso(y, m, d) == ToString(y) \o "-" \o Pad2(m) \o "-" \o Pad2(d)

Item(date, name_cn, type) == [date |-> date, name_cn |-> name_cn, type |-> type]

\* Two editions of a year's data the remote may serve
RemoteDates(y, edition) ==
    IF edition = 1
    THEN <<Item(Iso(y, 1, 1), "YuanDan", "public_holiday"),
           Item(Iso(y, 12, 30), "YuanDan", "transfer_workday")>>
    ELSE <<Item(Iso(y, 1, 1), "YuanDan", "public_holiday"),
           Item(Iso(y, 12, 30), "YuanDan", "transfer_workday"),
           Item(Iso(y, 12, 31), "YuanDan", "public_holiday")>>

\* A response: a network error, or a status with a body that is JSON of the
\* expected shape or not
Response(err, status, json_ok, dates) ==
    [err |-> err, status |-> status, json_ok |-> json_ok, dates |-> dates]

Responses(y) ==
    { Response(TRUE, 0, FALSE, <<>>),                 \* connection failure
      Response(FALSE, 404, FALSE, <<>>),              \* non-200
      Response(FALSE, 200, FALSE, <<>>),              \* body is not the JSON expected
      Response(FALSE, 200, TRUE, <<>>),               \* no "dates", or an empty list
      Response(FALSE, 200, TRUE, <<[name_cn |-> "YuanDan"]>>),  \* item without "date"
      Response(FALSE, 200, TRUE, RemoteDates(y, 1)),
      Response(FALSE, 200, TRUE, RemoteDates(y, 2)) }

\* The responses the surfaces are run over
SurfaceResponses(y) ==
    { Response(TRUE, 0, FALSE, <<>>),
      Response(FALSE, 200, TRUE, RemoteDates(y, 1)) }

RECURSIVE build_map(_, _)
build_map(dates, acc) ==
    IF dates = <<>> THEN acc
    ELSE LET item == Head(dates)
             keys == DOMAIN acc \cup {item.date}
         IN  build_map(Tail(dates),
                       [k \in keys |-> IF k = item.date THEN item ELSE acc[k]])

\* download_holiday_data(year), given the response to its one request
download_holiday_data(resp) ==
    IF resp.err THEN EmptyMap                          \* except Exception
    ELSE IF resp.status = 200
    THEN IF ~resp.json_ok THEN EmptyMap                \* response.json() raises
         ELSE IF \E i \in 1..Len(resp.dates) : "date" \notin DOMAIN resp.dates[i]
         THEN EmptyMap                                 \* KeyError, caught
         ELSE build_map(resp.dates, EmptyMap)
    ELSE EmptyMap

-----------------------------------------------------------------------------
(* The state machine.  Every entry point is a coroutine on one event loop:  *)
(* between two awaits a chain runs alone (running = its id); at an await    *)
(* (the remote request, generate_with_model, send_text) the loop is free.   *)
(* The clock advances whenever it likes.                                    *)

\* One chain per invocation, started in order
Chains == 1..MaxCalls

StartDay == <<2023, 12, 31>>

Years == {ord2ymd(ymd2ord(StartDay) + t)[1] : t \in 0..MaxTicks}

\* A cached file whose entries are no JSON objects
ForeignMap(y) ==
    [k \in {Iso(y, 12, 31), Iso(y, 1, 1)} |-> [nondict |-> "x"]]

\* What CACHE_DIR may hold when the process starts, for the year it starts
\* in and for a later year
InitFiles(y) ==
    IF y = StartDay[1]
    THEN { Absent,
           NoPerm,
           File(<<OpenBrace>>),
           File(<<OpenBrace, CloseBrace>>),
           File(json_dump(build_map(RemoteDates(y, 1), EmptyMap))),
           File(json_dump(ForeignMap(y))) }
    ELSE { Absent,
           File(json_dump(build_map(RemoteDates(y, 1), EmptyMap))) }

NoRet == [set |-> FALSE, success |-> FALSE, cont |-> FALSE, text |-> ""]
Ret(success, cont, text) ==
    [set |-> TRUE, success |-> success, cont |-> cont, text |-> text]

IdleChain ==
    [pc |-> "idle", kind |-> "tool", year |-> 0, seen |-> Absent, reqs |-> 0,
     hmap |-> EmptyMap, woff |-> 0, today |-> 0, info |-> Return(""),
     message |-> "", sent |-> <<>>, failed |-> FALSE, ret |-> NoRet]

\* The prompt of the message the handler is given, before any injection
OrigPrompt == "Hi"

FAIL_MESSAGE == "chaxun riqi xinxi shibai, qing shaohou zaishi"

inject_content_prepended(prompt, date_info) ==
    "\n\n[riqi]\n" \o date_info \o "\n\ntishi" \o prompt

\* new_prompt = message.llm_prompt + inject_content
inject_content(prompt, date_info) ==
    prompt \o "\n\n[riqi]\n" \o date_info \o "\n\ntishi"

InitLog ==
    [calls |-> 0, ticks |-> 0, blocks |-> <<>>,
     last_ok |-> [y \in Years |-> EmptyMap],
     served |-> [y \in Years |-> {}]]

\* The files the surfaces are run over: a cold cache, a warm one, and one
\* whose entries make the rendering raise
SurfaceFiles(y) ==
    IF y = StartDay[1]
    THEN { Absent,
           File(json_dump(build_map(RemoteDates(y, 1), EmptyMap))),
           File(json_dump(ForeignMap(y))) }
    ELSE { Absent }

InitOf(files) ==
    /\ now = ymd2ord(StartDay)
    /\ store \in {f \in [Years -> UNION {files[y] : y \in Years}] :
                    \A y \in Years : f[y] \in files[y]}
    /\ chain = [c \in Chains |-> IdleChain]
    /\ running = 0
    /\ llm_prompt = OrigPrompt
    /\ last = IdleChain
    /\ log = InitLog
    /\ pure = [fn |-> "none"]

Init == InitOf([y \in Years |-> InitFiles(y)])

SurfaceInit == InitOf([y \in Years |-> SurfaceFiles(y)])

\* A midnight passes
Tick ==
    /\ log.ticks < MaxTicks
    /\ now' = now + 1
    /\ log' = [log EXCEPT !.ticks = @ + 1]
    /\ UNCHANGED <<store, chain, running, llm_prompt, last, pure>>

cache_hit_never(cached) == FALSE

\* get_holiday_map: "if holiday_map: return holiday_map"
cache_hit(cached) == Truthy(cached)

\* The host starts an entry point.  The handler returns at once without a
\* message or with an empty prompt; every other call enters
\* get_three_days_info: it reads the clock for the year and runs
\* get_holiday_map up to its return (cache hit) or its await (the request).
Start(c, kind, m) ==
    /\ running = 0
    /\ chain[c].pc = "idle"
    /\ c = log.calls + 1
    /\ log' = [log EXCEPT !.calls = @ + 1]
    /\ IF kind = "handler" /\ m # "msg"
       THEN /\ last' = [IdleChain EXCEPT !.pc = "done", !.kind = kind,
                                         !.ret = Ret(TRUE, TRUE, "")]
            /\ UNCHANGED <<chain, running>>
       ELSE LET year   == ord2ymd(now)[1]
                cached == load_cached_holiday(store[year])
            IN  /\ last' = last
                /\ IF cache_hit(cached)
                   THEN /\ chain' = [chain EXCEPT ![c] =
                            [IdleChain EXCEPT !.pc = "render", !.kind = kind,
                                              !.year = year, !.seen = store[year],
                                              !.hmap = cached]]
                        /\ running' = c
                   ELSE /\ chain' = [chain EXCEPT ![c] =
                            [IdleChain EXCEPT !.pc = "fetching", !.kind = kind,
                                              !.year = year, !.seen = store[year],
                                              !.reqs = 1]]
                        /\ running' = 0
    /\ UNCHANGED <<now, store, llm_prompt, pure>>

\* The response to the request arrives: download_holiday_data returns, and
\* get_holiday_map saves a non-empty mapping.  save_cached_holiday opens the
\* file for writing (which empties it) unless the open raises.
Respond(c, resp) ==
    /\ running = 0
    /\ chain[c].pc = "fetching"
    /\ LET year == chain[c].year
           m    == download_holiday_data(resp)
       IN  /\ running' = c
           /\ log' = [log EXCEPT !.served[year] =
                            IF Truthy(m) THEN @ \cup {m} ELSE @]
           /\ IF Truthy(m) /\ store[year].st # "noperm"
              THEN /\ store' = [store EXCEPT ![year] = File(<<>>)]
                   /\ chain' = [chain EXCEPT ![c].pc = "writing",
                                             ![c].hmap = m, ![c].woff = 0]
              ELSE /\ store' = store
                   /\ chain' = [chain EXCEPT ![c].pc = "render", ![c].hmap = m]
    /\ UNCHANGED <<now, llm_prompt, last, pure>>

\* json.dump writes its next chunk; after the last one the file is closed
WriteChunk(c) ==
    /\ running = c
    /\ chain[c].pc = "writing"
    /\ LET year   == chain[c].year
           tokens == json_dump(chain[c].hmap)
           i      == chain[c].woff + 1
       IN  /\ store' = [store EXCEPT ![year].data = Append(@, tokens[i])]
           /\ IF i = Len(tokens)
              THEN /\ chain' = [chain EXCEPT ![c].pc = "render", ![c].woff = i]
                   /\ log' = [log EXCEPT !.last_ok[year] = chain[c].hmap]
              ELSE /\ chain' = [chain EXCEPT ![c].woff = i]
                   /\ log' = log
    /\ UNCHANGED <<now, running, llm_prompt, last, pure>>

\* A write raises (the disk is full, say): save_cached_holiday logs it and
\* returns, and the file keeps what was written
WriteFail(c) ==
    /\ running = c
    /\ chain[c].pc = "writing"
    /\ chain' = [chain EXCEPT ![c].pc = "render"]
    /\ UNCHANGED <<now, store, running, llm_prompt, last, log, pure>>

DummyGen == [raises |-> TRUE, success |-> FALSE, result |-> ""]

\* get_holiday_map has returned: get_three_days_info reads the clock again
\* (get_three_days_raw_info) and formats; then the entry point runs on to its
\* return or to its next await.
Render(c) ==
    /\ running = c
    /\ chain[c].pc = "render"
    /\ running' = 0
    /\ LET base == get_three_days_raw_info(now)
           info == format_three_days(base, chain[c].hmap)
           self == [chain[c] EXCEPT !.today = now, !.info = info, !.hmap = EmptyMap,
                                    !.seen = Absent, !.woff = 0]
       IN  CASE chain[c].kind = "tool" ->
                  /\ last' = [self EXCEPT !.pc = "done",
                                     !.ret = IF info.exc THEN Ret(FALSE, FALSE, "")
                                             ELSE Ret(TRUE, FALSE, info.val)]
                  /\ chain' = [chain EXCEPT ![c] = IdleChain]
                  /\ UNCHANGED <<llm_prompt, log>>
            [] chain[c].kind = "handler" ->
                  /\ last' = [self EXCEPT !.pc = "done", !.ret = Ret(TRUE, TRUE, "")]
                  /\ chain' = [chain EXCEPT ![c] = IdleChain]
                  /\ IF info.exc
                     THEN UNCHANGED <<llm_prompt, log>>
                     ELSE /\ llm_prompt' = inject_content(llm_prompt, info.val)
                          /\ log' = [log EXCEPT !.blocks = Append(@, info.val)]
            [] chain[c].kind = "command" ->
                  /\ UNCHANGED <<llm_prompt, log, last>>
                  /\ IF info.exc
                     THEN chain' = [chain EXCEPT ![c] = [self EXCEPT !.pc = "failsend"]]
                     ELSE \E enable_llm_expand \in BOOLEAN, models \in ModelConfigs :
                            IF enable_llm_expand /\ expand_awaits(models)
                            THEN chain' = [chain EXCEPT ![c] = [self EXCEPT !.pc = "llm"]]
                            ELSE chain' = [chain EXCEPT ![c] =
                                    [self EXCEPT
                                        !.pc = "sending",
                                        !.message =
                                            IF enable_llm_expand
                                            THEN expand_with_llm(info.val, models, DummyGen)
                                            ELSE info.val]]
    /\ UNCHANGED <<now, store, pure>>

\* generate_with_model returns or raises; expand_with_llm returns
LlmRespond(c, gen) ==
    /\ running = 0
    /\ chain[c].pc = "llm"
    /\ chain' = [chain EXCEPT
            ![c].pc = "sending",
            ![c].message = expand_with_llm(chain[c].info.val,
                                           [raises |-> FALSE, replyer |-> TRUE], gen)]
    /\ UNCHANGED <<now, store, running, llm_prompt, last, log, pure>>

\* DateCommand.execute: await self.send_text(message) returns or raises
SendText(c, ok) ==
    /\ running = 0
    /\ chain[c].pc = "sending"
    /\ IF ok
       THEN /\ last' = [chain[c] EXCEPT
                            !.pc = "done",
                            !.sent = Append(@, chain[c].message),
                            !.ret = Ret(TRUE, TRUE, "xianshi: " \o chain[c].message)]
            /\ chain' = [chain EXCEPT ![c] = IdleChain]
       ELSE /\ chain' = [chain EXCEPT ![c].pc = "failsend"]
            /\ last' = last
    /\ UNCHANGED <<now, store, running, llm_prompt, log, pure>>

\* DateCommand.execute, except branch: await self.send_text(failure message)
\* returns, or raises out of execute
FailSend(c, ok) ==
    /\ running = 0
    /\ chain[c].pc = "failsend"
    /\ last' = IF ok
               THEN [chain[c] EXCEPT !.pc = "done", !.failed = TRUE,
                                     !.sent = Append(@, FAIL_MESSAGE),
                                     !.ret = Ret(TRUE, TRUE, "chaxun shibai")]
               ELSE [chain[c] EXCEPT !.pc = "escaped", !.failed = TRUE]
    /\ chain' = [chain EXCEPT ![c] = IdleChain]
    /\ UNCHANGED <<now, store, running, llm_prompt, log, pure>>

\* The cache loader under concurrent callers: every call chain is a
\* DateTool.execute
Next ==
    \/ Tick
    \/ \E c \in Chains : Start(c, "tool", "none")
    \/ \E c \in Chains : \E resp \in Responses(chain[c].year) : Respond(c, resp)
    \/ \E c \in Chains : WriteChunk(c)
    \/ \E c \in Chains : WriteFail(c)
    \/ \E c \in Chains : Render(c)

Spec == Init /\ [][Next]_vars

\* The surfaces: the host runs the event handler and the command, within
\* one day
SurfaceNext ==
    \/ \E c \in Chains, m \in {"none", "empty", "msg"} : Start(c, "handler", m)
    \/ \E c \in Chains : Start(c, "command", "none")
    \/ \E c \in Chains : \E resp \in SurfaceResponses(chain[c].year) : Respond(c, resp)
    \/ \E c \in Chains : WriteChunk(c)
    \/ \E c \in Chains : Render(c)
    \/ \E c \in Chains, gen \in GenOutcomes : LlmRespond(c, gen)
    \/ \E c \in Chains, ok \in BOOLEAN : SendText(c, ok)
    \/ \E c \in Chains, ok \in BOOLEAN : FailSend(c, ok)

SpecSurface == SurfaceInit /\ [][SurfaceNext]_vars

-----------------------------------------------------------------------------
(* The pure functions, applied to inputs drawn from bounded sets *)

FirstDay == <<2023, 12, 25>>

\* A year and more of consecutive days, and the days around the ends of
\* February 1900, 2000 and 2100 and around the turn of 1999/2000
PureDays ==
    {ymd2ord(FirstDay) + i : i \in 0..SpanDays}
    \cup {ymd2ord(a) + i : a \in {<<1900, 2, 27>>, <<2000, 2, 27>>, <<2100, 2, 27>>,
                                   <<1999, 12, 30>>},
                           i \in 0..3}

PureRenderMaps ==
    { EmptyMap,
      build_map(RemoteDates(2023, 2), EmptyMap),
      build_map(RemoteDates(2024, 2), EmptyMap),
      [k \in {Iso(2024, 2, 29), Iso(2024, 5, 1)} |->
          IF k = Iso(2024, 5, 1) THEN [name_cn |-> "", type |-> "public_holiday"]
          ELSE [name_cn |-> "RunRi"]] }

PureEntries ==
    {[name_cn |-> n, type |-> t] : n \in {"", "ChunJie"},
                                   t \in {"public_holiday", "transfer_workday"}}
    \cup {[type |-> "transfer_workday"], [name_cn |-> "ChunJie"]}

PureKeys == {"2024-01-01", "2024-02-10"}

PureLookupMaps ==
    UNION {[ks -> PureEntries] : ks \in SUBSET PureKeys}

PureDateStrs == {"2024-01-01", "2024-02-10", "2024-10-01", "2024-02-11"}

PureRaws == {"zuotian | 12yue31ri XingQiRi\njintian | 1yue1ri XingQiYi[YuanDan]\nmingtian | 1yue2ri XingQiEr"}

PureGens ==
    GenOutcomes
    \cup {[raises |-> FALSE, success |-> TRUE, result |-> r] : r \in {"prose", "\n", "a b "}}

PureInit ==
    /\ now = ymd2ord(StartDay)
    /\ store = [y \in Years |-> Absent]
    /\ chain = [c \in Chains |-> IdleChain]
    /\ running = 0
    /\ llm_prompt = OrigPrompt
    /\ last = IdleChain
    /\ log = InitLog
    /\ pure = [fn |-> "none"]

PureHolidayName ==
    /\ pure.fn = "none"
    /\ \E d \in PureDateStrs, m \in PureLookupMaps :
            pure' = [fn |-> "get_holiday_name", date_str |-> d, holiday_map |-> m,
                     out |-> get_holiday_name(d, m)]
    /\ UNCHANGED <<now, store, chain, running, llm_prompt, last, log>>

PureThreeDays ==
    /\ pure.fn = "none"
    /\ \E t \in PureDays, m \in PureRenderMaps :
            pure' = [fn |-> "get_three_days_info", today |-> t, holiday_map |-> m,
                     base |-> get_three_days_raw_info(t),
                     out |-> format_three_days(get_three_days_raw_info(t), m)]
    /\ UNCHANGED <<now, store, chain, running, llm_prompt, last, log>>

PureExpand ==
    /\ pure.fn = "none"
    /\ \E raw \in PureRaws, models \in ModelConfigs, gen \in PureGens :
            pure' = [fn |-> "expand_with_llm", raw_info |-> raw, models |-> models,
                     gen |-> gen, out |-> expand_with_llm(raw, models, gen)]
    /\ UNCHANGED <<now, store, chain, running, llm_prompt, last, log>>

PureNext == PureHolidayName \/ PureThreeDays \/ PureExpand

SpecPure == PureInit /\ [][PureNext]_vars

-----------------------------------------------------------------------------
(* Helpers of the properties *)

Contains(s, sub) ==
    \E i \in 1..(Len(s) - Len(sub) + 1) : SubSeq(s, i, i + Len(sub) - 1) = sub

StartsWith(s, p) == Len(s) >= Len(p) /\ SubSeq(s, 1, Len(p)) = p

\* Where the line breaks of s are
Breaks(s) == {i \in 1..Len(s) : SubSeq(s, i, i) = "\n"}

\* s.split("\n")
RECURSIVE SplitLines(_)
SplitLines(s) ==
    IF Breaks(s) = {} THEN <<s>>
    ELSE LET i == CHOOSE j \in Breaks(s) : \A k \in Breaks(s) : j <= k
         IN  <<SubSeq(s, 1, i - 1)>> \o SplitLines(SubSeq(s, i + 1, Len(s)))

WeekdayNames == <<"XingQiYi", "XingQiEr", "XingQiSan", "XingQiSi",
                  "XingQiWu", "XingQiLiu", "XingQiRi">>

\* The calendar's rule for the day after <<y, m, d>>, and the day before
MonthLength(y, m) ==
    IF m = 2 THEN (IF is_leap(y) THEN 29 ELSE 28)
    ELSE IF m \in {4, 6, 9, 11} THEN 30 ELSE 31

CalNext(d) ==
    IF d[3] < MonthLength(d[1], d[2]) THEN <<d[1], d[2], d[3] + 1>>
    ELSE IF d[2] < 12 THEN <<d[1], d[2] + 1, 1>>
    ELSE <<d[1] + 1, 1, 1>>

CalPrev(d) ==
    IF d[3] > 1 THEN <<d[1], d[2], d[3] - 1>>
    ELSE IF d[2] > 1 THEN <<d[1], d[2] - 1, MonthLength(d[1], d[2] - 1)>>
    ELSE <<d[1] - 1, 12, 31>>

ShortOf(d) == ToString(d[2]) \o "yue" \o ToString(d[3]) \o "ri"

WeekdayIndex(line) == CHOOSE i \in 1..7 : Contains(line, WeekdayNames[i])

-----------------------------------------------------------------------------
(* C6: get_three_days_info returns exactly three lines, yesterday, today,   *)
(* tomorrow in that order; each line holds the " | " separator and exactly  *)
(* one name of the Monday-first weekday table; the three days are the       *)
(* calendar's day before today, today and the day after, with consecutive   *)
(* weekdays, and 2024-01-01 with an empty map renders as the documented     *)
(* example.                                                                 *)
C6_ThreeConsecutiveLines ==
    pure.fn = "get_three_days_info" =>
        LET T     == ord2ymd(pure.today)
            lines == SplitLines(pure.out.val)
            days  == <<CalPrev(T), T, CalNext(T)>>
            names == <<"zuotian", "jintian", "mingtian">>
        IN  /\ ~pure.out.exc
            /\ Len(lines) = 3
            /\ \A i \in 1..3 :
                  /\ StartsWith(lines[i], names[i] \o " | " \o ShortOf(days[i]) \o " ")
                  /\ Cardinality({w \in 1..7 : Contains(lines[i], WeekdayNames[w])}) = 1
            /\ pure.base.yesterday.date_str = Iso(days[1][1], days[1][2], days[1][3])
            /\ pure.base.today.date_str = Iso(days[2][1], days[2][2], days[2][3])
            /\ pure.base.tomorrow.date_str = Iso(days[3][1], days[3][2], days[3][3])
            /\ WeekdayIndex(lines[2]) = (WeekdayIndex(lines[1]) % 7) + 1
            /\ WeekdayIndex(lines[3]) = (WeekdayIndex(lines[2]) % 7) + 1
            /\ (pure.today = ymd2ord(<<2024, 1, 1>>) /\ pure.holiday_map = EmptyMap) =>
                  pure.out.val = "zuotian | 12yue31ri XingQiRi\njintian | 1yue1ri XingQiYi[YuanDan]\nmingtian | 1yue2ri XingQiEr"

\* A leap day rendered as today, between 28 February and 1 March
C6_Witness ==
    /\ pure.fn = "get_three_days_info"
    /\ pure.base.today.date_str = "2024-02-29"
    /\ pure.base.tomorrow.date_str = "2024-03-01"
    /\ Len(SplitLines(pure.out.val)) = 3

-----------------------------------------------------------------------------
(* C7: get_holiday_name reads FIXED_HOLIDAYS (by the MM-DD part of the      *)
(* date) only when the map has no entry for exactly that date; with an      *)
(* entry the result is the entry's name, with (tiaoxiu) appended when its   *)
(* type is transfer_workday, even on a fixed month-day and even when the    *)
(* name is empty.                                                           *)
C7_DynamicEntryWins ==
    pure.fn = "get_holiday_name" =>
        LET d  == pure.date_str
            M  == pure.holiday_map
            md == SubSeq(d, 6, 10)
        IN  /\ ~pure.out.exc
            /\ d \notin DOMAIN M =>
                  pure.out.val = (IF md \in DOMAIN FIXED_HOLIDAYS
                                  THEN FIXED_HOLIDAYS[md] ELSE "")
            /\ d \in DOMAIN M =>
                  LET name == IF "name_cn" \in DOMAIN M[d] THEN M[d].name_cn ELSE ""
                      transfer == "type" \in DOMAIN M[d] /\ M[d].type = "transfer_workday"
                  IN  pure.out.val = (IF transfer THEN name \o "(tiaoxiu)" ELSE name)

\* An entry with an empty name on a fixed month-day: the result is empty,
\* not the fixed holiday
C7_Witness ==
    /\ pure.fn = "get_holiday_name"
    /\ pure.date_str = "2024-01-01"
    /\ "2024-01-01" \in DOMAIN pure.holiday_map
    /\ pure.holiday_map["2024-01-01"] = [name_cn |-> "", type |-> "public_holiday"]
    /\ pure.out.val = ""

-----------------------------------------------------------------------------
(* C4: expand_with_llm returns the raw string unchanged when no model is    *)
(* configured, when the call raises or reports failure and when the result  *)
(* is empty, and what it returns for a non-empty raw string is never empty, *)
(* also when the model's result is whitespace only.                         *)
C4_ExpandNeverWorse ==
    pure.fn = "expand_with_llm" =>
        /\ (\/ pure.models.raises
            \/ ~pure.models.replyer
            \/ pure.gen.raises
            \/ ~pure.gen.success
            \/ pure.gen.result = "") => pure.out = pure.raw_info
        /\ pure.raw_info # "" => pure.out # ""

-----------------------------------------------------------------------------
(* Properties of the cache loader, under Spec *)

\* The mappings a file of CACHE_DIR may hold whole when the process starts
InitValidMaps(y) ==
    {read_file(f).val : f \in {g \in InitFiles(y) : ~read_file(g).exc}}

\* get_holiday_map has loaded the cache and not yet returned to the formatter
InGetHolidayMap(c) == chain[c].pc \in {"fetching", "writing", "render"}

C2_RenderingAlwaysCompletes ==
    /\ last.pc = "done" => ~last.info.exc
    /\ \A c \in Chains :
          (chain[c].pc = "render" /\ chain[c].reqs = 1
                /\ log.served[chain[c].year] = {}) => chain[c].hmap = EmptyMap

(* C8: a reader never accepts a half-written file.  Whatever                *)
(* load_cached_holiday returns for a year is empty or is a mapping the file *)
(* holds whole (one it started with or one a call fetched), and it is empty *)
(* for as long as a write to the file is under way and after a write that   *)
(* was cut short.                                                           *)
C8_NoPartialFileAccepted ==
    \A y \in Years :
        LET r == load_cached_holiday(store[y])
        IN  /\ r # EmptyMap =>
                  /\ store[y].data = json_dump(r)
                  /\ r \in (log.served[y] \cup InitValidMaps(y))
            /\ \A c \in Chains :
                  (chain[c].pc = "writing" /\ chain[c].year = y) => r = EmptyMap
            /\ (store[y].st = "file" /\ store[y].data # <<>>
                    /\ store[y].data[Len(store[y].data)].k # "}") => r = EmptyMap

\* A write was cut short after the first entry, the writer has gone on, and
\* the file reads as empty
C8_Witness ==
    \E y \in Years :
        /\ store[y].st = "file"
        /\ Len(store[y].data) = 2
        /\ store[y].data[2].k = "entry"
        /\ \A c \in Chains : chain[c].pc # "writing"
        /\ load_cached_holiday(store[y]) = EmptyMap

(* C9: each call makes at most one request, and when the remote served the  *)
(* same data to every caller, every successful caller returned it and,      *)
(* once all calls have finished, the store holds the mapping of the last    *)
(* writer whose write succeeded.                                            *)
C9_LastWriterWins ==
    /\ \A c \in Chains : chain[c].reqs <= 1
    /\ \A c \in Chains :
          (InGetHolidayMap(c) /\ chain[c].reqs = 1 /\ Truthy(chain[c].hmap)
                /\ Cardinality(log.served[chain[c].year]) <= 1) =>
              chain[c].hmap \in log.served[chain[c].year]
    /\ \A y \in Years :
          (/\ \A c \in Chains : chain[c].pc = "idle"
           /\ Cardinality(log.served[y]) <= 1
           /\ log.last_ok[y] # EmptyMap) =>
              load_cached_holiday(store[y]) = log.last_ok[y]

(* C10: the map that annotates the three days is the map of the year of the *)
(* today that is rendered.                                                  *)
C10_MapOfRenderedToday ==
    (last.pc = "done" /\ last.today # 0) => last.year = ord2ymd(last.today)[1]

-----------------------------------------------------------------------------
(* Properties of the surfaces, under SpecSurface *)

(* C3: DateCommand.execute returns on every path with success true, the     *)
(* failure message having been sent on the failure path; no exception       *)
(* leaves execute.                                                          *)
C3_CommandAlwaysAcknowledges ==
    (last.kind = "command" /\ last.pc # "idle") =>
        /\ last.pc = "done"
        /\ last.ret.success
        /\ last.failed => last.sent = <<FAIL_MESSAGE>>

(* C5: the handler only appends.  Every step leaves the prompt as it was or *)
(* adds one date block at its end, the latter exactly when a handler call   *)
(* returns after a successful rendering; a handler call that had no         *)
(* message, an empty prompt or a failed rendering leaves the prompt alone;  *)
(* every handler call returns continue = true; the original prompt stays a  *)
(* prefix.                                                                  *)
C5_HandlerOnlyAppends ==
    /\ [](StartsWith(llm_prompt, OrigPrompt))
    /\ [][/\ StartsWith(llm_prompt', llm_prompt)
          /\ llm_prompt' # llm_prompt =>
                /\ last'.kind = "handler" /\ last'.pc = "done" /\ ~last'.info.exc
                /\ llm_prompt' = llm_prompt \o "\n\n[riqi]\n" \o last'.info.val
                                            \o "\n\ntishi"
          /\ (log'.calls # log.calls \/ last' # last) /\ last'.kind = "handler" =>
                /\ last'.pc = "done" => (last'.ret.success /\ last'.ret.cont)
                /\ (last'.today = 0 \/ last'.info.exc) => llm_prompt' = llm_prompt
          /\ (last' # last /\ last'.kind = "handler" /\ last'.today # 0
                /\ ~last'.info.exc) => llm_prompt' # llm_prompt
         ]_vars

\* Two handler calls have each appended their block to the prompt
C5_Witness ==
    /\ Len(log.blocks) = 2
    /\ last.kind = "handler"
    /\ llm_prompt = OrigPrompt \o "\n\n[riqi]\n" \o log.blocks[1] \o "\n\ntishi"
                               \o "\n\n[riqi]\n" \o log.blocks[2] \o "\n\ntishi"

====
